---- MODULE Spec2Model ----
(***************************************************************************)
(* State-machine model of the sparql-transactional-test harness:           *)
(*   - the supervisor `run` (src/src/main.rs),                             *)
(*   - the update worker (src/src/update_worker.rs),                       *)
(*   - the random read worker (src/src/random_read_worker.rs),             *)
(*   - the kill worker (src/src/kill_worker.rs).                           *)
(* Strings are sequences of byte values, so that normalize_dbstate is      *)
(* computed the way the code computes it.                                  *)
(***************************************************************************)
EXTENDS Integers, Sequences, FiniteSets, TLC

(***************************************************************************)
(* Bounds of the model.                                                    *)
(***************************************************************************)
\* Largest size of a run: the scripted operations of all update workers, the
\* random read workers and the transport errors the update workers meet,
\* counted together.
MaxSize == 3

(***************************************************************************)
(* Bytes and strings.                                                      *)
(***************************************************************************)
HT == 9
NL == 10
VT == 11
FF == 12
CR == 13
SP == 32
ChA == 97
ChB == 98

\* char::is_whitespace, on the ASCII bytes of the model: tab, line feed,
\* vertical tab, form feed, carriage return and space.
IsWhitespace(c) == c \in {HT, NL, VT, FF, CR, SP}

\* str::lines() takes the line up to a "\n" and drops one "\r" that stands
\* directly before that "\n"; a last line without "\n" is kept as it is.
StripCR(line) ==
    IF line # <<>> /\ line[Len(line)] = CR
    THEN SubSeq(line, 1, Len(line) - 1)
    ELSE line

\* str::lines(): split at "\n" or "\r\n"; a final line ending yields no
\* empty last line.
RECURSIVE LinesFrom(_, _, _)
LinesFrom(s, i, cur) ==
    IF i > Len(s) THEN (IF cur = <<>> THEN <<>> ELSE <<cur>>)
    ELSE IF s[i] = NL THEN <<StripCR(cur)>> \o LinesFrom(s, i + 1, <<>>)
    ELSE LinesFrom(s, i + 1, Append(cur, s[i]))

Lines(s) == LinesFrom(s, 1, <<>>)

\* str::trim(): drop leading and trailing whitespace.
RECURSIVE TrimStart(_)
TrimStart(l) ==
    IF l # <<>> /\ IsWhitespace(Head(l)) THEN TrimStart(Tail(l)) ELSE l

RECURSIVE TrimEnd(_)
TrimEnd(l) ==
    IF l # <<>> /\ IsWhitespace(l[Len(l)])
    THEN TrimEnd(SubSeq(l, 1, Len(l) - 1))
    ELSE l

Trim(l) == TrimEnd(TrimStart(l))

\* Ord for &str: lexicographic comparison of the bytes.
RECURSIVE StrLeq(_, _)
StrLeq(a, b) ==
    IF a = <<>> THEN TRUE
    ELSE IF b = <<>> THEN FALSE
    ELSE IF Head(a) < Head(b) THEN TRUE
    ELSE IF Head(a) > Head(b) THEN FALSE
    ELSE StrLeq(Tail(a), Tail(b))

\* Vec::sort() (stable), as an insertion sort.
RECURSIVE InsertSorted(_, _)
InsertSorted(x, ls) ==
    IF ls = <<>> THEN <<x>>
    ELSE IF StrLeq(Head(ls), x) THEN <<Head(ls)>> \o InsertSorted(x, Tail(ls))
    ELSE <<x>> \o ls

\* (No sort: the lines stay in the order of the input.)
SortLines_Unsorted(ls) == ls

RECURSIVE SortLines(_)
SortLines(ls) ==
    IF ls = <<>> THEN <<>>
    ELSE InsertSorted(ls[Len(ls)], SortLines(SubSeq(ls, 1, Len(ls) - 1)))

\* (A join that puts "\n" between the lines and none after the last.)
RECURSIVE JoinLines_Separated(_)
JoinLines_Separated(ls) ==
    IF ls = <<>> THEN <<>>
    ELSE IF Len(ls) = 1 THEN Head(ls)
    ELSE Head(ls) \o <<NL>> \o JoinLines_Separated(Tail(ls))

\* lines.into_iter().flat_map(|line| [line, "\n"]).collect()
RECURSIVE JoinLines(_)
JoinLines(ls) ==
    IF ls = <<>> THEN <<>>
    ELSE Head(ls) \o <<NL>> \o JoinLines(Tail(ls))

normalize_dbstate(state) ==
    JoinLines(SortLines([i \in 1..Len(Lines(state)) |-> Trim(Lines(state)[i])]))


(***************************************************************************)
(* Inputs: the command line and the update scripts.                        *)
(***************************************************************************)
IgnoreConnectionError == "IgnoreConnectionError"
ReportConnectionError == "ReportConnectionError"

\* The parsed command lines: the mode, nW update workers with the files
\* op_0.json .. op_<nOps-1>.json each, nR random read workers, the durability
\* subcommand, and whether the readers were given a query file (-q). Stress
\* has no update workers and no kill worker.
RunSize(c) == c.nW * c.nOps + c.nR

Configs ==
    { c \in [mode : {"stress", "verify"}, nW : 0..MaxSize, nR : 0..MaxSize,
             nOps : 1..MaxSize, durability : BOOLEAN, queryFile : BOOLEAN] :
        /\ RunSize(c) <= MaxSize
        /\ c.mode = "stress" => (c.nW = 0 /\ c.nOps = 1 /\ ~c.durability)
        /\ c.nR = 0 => ~c.queryFile }

\* The transport errors the store lets the update workers of a run meet.
MaxFaults(c) == MaxSize - RunSize(c)

\* The requests the store lets one random read worker of a run complete.
MaxMeasured(c) == MaxSize - RunSize(c)

\* The content of op_<i>.json as written on disk (not yet normalized).
OpFile(i) ==
    [subject |-> i,
     validation_default |-> <<ChB, NL, ChA, NL>>,
     validation_named |-> <<SP, ChA>>]

\* UpdateOperation::normalize
NormalizeOp(op) ==
    [op EXCEPT !.validation_default = normalize_dbstate(op.validation_default),
               !.validation_named = normalize_dbstate(op.validation_named)]

\* UpdateWorker::new: queries[k] is loaded from op_<k-1>.json, files are read
\* in the order 0, 1, 2, ... and each is normalized when pushed.
NormalizedOps == [k \in 1..MaxSize |-> NormalizeOp(OpFile(k - 1))]

Queries(nOps) == [k \in 1..nOps |-> NormalizedOps[k]]

\* (Ids counted from 1.)
UpdateId_OneBased(k) == k

\* The id `enumerate()` gives the operation at position k of `queries`.
UpdateId(k) == k - 1

\* The i of the file op_<i>.json an operation was loaded from: the scripts of
\* the model name the subject of op_<i>.json after i.
FileIndexOf(op) == op.subject

(***************************************************************************)
(* The store and the scripts, as seen by the harness.                      *)
(***************************************************************************)
Statuses == {"2xx", "3xx", "4xx", "5xx"}

\* Response bodies the store may send for a CONSTRUCT query.
Bodies == { <<ChA, NL, ChB, SP, NL>>, <<ChA, NL>> }

\* Outcome of `send().await` for a request without a body read.
SendOutcomes ==
    {[t |-> "send_err", status |-> "none"]}
        \cup {[t |-> "resp", status |-> s] : s \in Statuses}

\* Outcome of `send().await` followed by `text().await`.
\* (The body of a 4xx or 5xx response is never read: one body stands for all.)
ReadOutcomes ==
    {[t |-> "send_err", status |-> "none", body |-> <<>>]}
        \cup {[t |-> "resp", status |-> s, body |-> b] :
                 s \in {"2xx", "3xx"}, b \in Bodies}
        \cup {[t |-> "resp", status |-> s, body |-> <<>>] : s \in {"4xx", "5xx"}}
        \cup {[t |-> "body_err", status |-> "2xx", body |-> <<>>]}

\* Outcome of spawning `sh -c <script>`.
SpawnOutcomes == {"spawned", "spawn_err"}

\* Outcome of running a shell script.
ScriptOutcomes == {"exit_zero", "exit_nonzero"}

\* normalize_dbstate of each body the store may send.
NormalizedBody == [b \in Bodies |-> normalize_dbstate(b)]

\* Response::error_for_status: an error exactly for 4xx and 5xx.
error_for_status(status) == status \in {"4xx", "5xx"}

\* (An issue_update that retries a transport error whatever the behaviour.)
issue_update_AlwaysRetry(behav, out) ==
    IF out.t = "resp"
    THEN IF error_for_status(out.status)
         THEN [tag |-> "Err", cause |-> "status"]
         ELSE [tag |-> "Break", cause |-> "none"]
    ELSE [tag |-> "Continue", cause |-> "none"]

\* UpdateWorker::issue_update, the match on the response.
issue_update(behav, out) ==
    IF out.t = "resp"
    THEN IF error_for_status(out.status)
         THEN [tag |-> "Err", cause |-> "status"]
         ELSE [tag |-> "Break", cause |-> "none"]
    ELSE IF behav = IgnoreConnectionError
         THEN [tag |-> "Continue", cause |-> "none"]
         ELSE [tag |-> "Err", cause |-> "transport"]

\* UpdateWorker::read_current_state_impl
read_current_state_impl(behav, out) ==
    IF out.t = "send_err"
    THEN IF behav = IgnoreConnectionError
         THEN [tag |-> "Continue", cause |-> "none", state |-> <<>>]
         ELSE [tag |-> "Err", cause |-> "transport", state |-> <<>>]
    ELSE IF error_for_status(out.status)
    THEN [tag |-> "Err", cause |-> "status", state |-> <<>>]
    ELSE IF out.t = "resp"
    THEN [tag |-> "Break", cause |-> "none", state |-> NormalizedBody[out.body]]
    ELSE IF behav = IgnoreConnectionError
    THEN [tag |-> "Continue", cause |-> "none", state |-> <<>>]
    ELSE [tag |-> "Err", cause |-> "transport", state |-> <<>>]

\* (A read_current_state that goes by the default-graph read alone.)
read_current_state_DefaultOnly(behav, outD, outN) ==
    LET d == read_current_state_impl(behav, outD)
    IN  [tag |-> d.tag, cause |-> d.cause, default |-> d.state, named |-> d.state]

\* UpdateWorker::read_current_state: join both reads, then `?` on the
\* default-graph result, then `?` on the named-graph result.
read_current_state(behav, outD, outN) ==
    LET d == read_current_state_impl(behav, outD)
        n == read_current_state_impl(behav, outN)
    IN  IF d.tag = "Err" THEN [tag |-> "Err", cause |-> d.cause, default |-> <<>>, named |-> <<>>]
        ELSE IF n.tag = "Err" THEN [tag |-> "Err", cause |-> n.cause, default |-> <<>>, named |-> <<>>]
        ELSE IF d.tag = "Break" /\ n.tag = "Break"
        THEN [tag |-> "Break", cause |-> "none", default |-> d.state, named |-> n.state]
        ELSE [tag |-> "Continue", cause |-> "none", default |-> <<>>, named |-> <<>>]

\* (A measure_query that times a request that failed in transport.)
measure_query_TimesErrors(behav, out) ==
    IF out.t # "resp"
    THEN IF behav = IgnoreConnectionError
         THEN [tag |-> "Some", cause |-> "none"]
         ELSE [tag |-> "Err", cause |-> "transport"]
    ELSE IF error_for_status(out.status)
    THEN [tag |-> "Err", cause |-> "status"]
    ELSE [tag |-> "Some", cause |-> "none"]

\* RandomReadWorker::measure_query
measure_query(behav, out) ==
    IF out.t = "send_err"
    THEN IF behav = IgnoreConnectionError
         THEN [tag |-> "None", cause |-> "none"]
         ELSE [tag |-> "Err", cause |-> "transport"]
    ELSE IF error_for_status(out.status)
    THEN [tag |-> "Err", cause |-> "status"]
    ELSE IF out.t = "resp"
    THEN [tag |-> "Some", cause |-> "none"]
    ELSE IF behav = IgnoreConnectionError
    THEN [tag |-> "None", cause |-> "none"]
    ELSE [tag |-> "Err", cause |-> "transport"]

\* (A run_command that does not look at the exit status.)
run_command_AnyExit(out) == "Ok"

\* KillWorker::run_command
run_command(out) == IF out = "exit_zero" THEN "Ok" ELSE "Err"

(***************************************************************************)
(* State.                                                                  *)
(***************************************************************************)
VARIABLES
    cfg,            \* the parsed command line (opts.sub)
    spc,            \* where the supervisor `run` is
    exitStatus,     \* the exit status of the process, Running while it runs
    nUpdateErrors,  \* n_update_errors
    cancelFired,    \* number of stop_notify.notify_waiters() calls so far
    barrier,        \* start_barrier: arrived count and generation
    waitGen,        \* per party: the generation it arrived in
    wpc, wop, wres, \* update workers: position, current operation, result
    whist,          \* update workers: requests sent and answers per operation
    wfaults,        \* transport errors the update workers met so far
    rpc, rres,      \* random read workers: position, result
    rmeasured,      \* random read workers: requests measured (Ok(Some(dur)))
    rsent,          \* random read workers: whether a request was sent (history)
    query_timings,  \* random read workers: durations held by query_timings
    kpc, kres,      \* kill worker: position, result
    scripts,        \* the scripts that were started (history)
    notified,       \* parties whose Notified future has been woken
    updCh, rdCh, killCh, \* the three completion channels
    gen,            \* a FileSourceQueryGenerator exercised on its own
    canon           \* normalize_dbstate exercised on its own

runVars == <<cfg, spc, exitStatus, nUpdateErrors, cancelFired, barrier, waitGen,
          wpc, wop, wres, whist, wfaults, rpc, rres, rmeasured, rsent, query_timings,
          kpc, kres, scripts, notified, updCh, rdCh, killCh>>

vars == <<runVars, gen, canon>>

\* gen and canon while the harness runs: no generator and no input on their own.
NoGen == [status |-> "none"]
NoCanon == [stage |-> "none"]

Running == -1

WorkerIds == 1..MaxSize
Writers == 1..cfg.nW
Readers == 1..cfg.nR

W(w) == <<"w", w>>
R(r) == <<"r", r>>
K == <<"k", 0>>
S == <<"s", 0>>
Parties == {W(w) : w \in WorkerIds} \cup {R(r) : r \in WorkerIds} \cup {K, S}

\* main.rs:193-197 and 180: the behaviour of the workers.
Behav ==
    IF cfg.mode = "verify" /\ cfg.durability
    THEN IgnoreConnectionError
    ELSE ReportConnectionError

\* make_kill_worker: a kill worker exactly with the durability subcommand.
HasKiller == cfg.mode = "verify" /\ cfg.durability

num_kill_workers == IF HasKiller THEN 1 ELSE 0

\* (A barrier that does not count the supervisor.)
BarrierParties_NoSupervisor == cfg.nW + cfg.nR + num_kill_workers

\* Barrier::new(num_update_workers + num_random_read_workers + num_kill_workers + 1)
BarrierParties == cfg.nW + cfg.nR + num_kill_workers + 1

NoResult == [kind |-> "none", update_id |-> -1, cause |-> "none"]
OkResult == [kind |-> "Ok", update_id |-> -1, cause |-> "none"]
ErrResult(kind, id, cause) == [kind |-> kind, update_id |-> id, cause |-> cause]

NoHist == [mutSent |-> 0, verSent |-> 0, ack |-> "none", verOk |-> FALSE]

InitRun(c) ==
    /\ cfg = c
    /\ spc = "init"
    /\ exitStatus = Running
    /\ nUpdateErrors = 0
    /\ cancelFired = 0
    /\ barrier = [arrived |-> 0, generation |-> 0]
    /\ waitGen = [p \in Parties |-> 0]
    /\ wpc = [w \in WorkerIds |-> "absent"]
    /\ wop = [w \in WorkerIds |-> 1]
    /\ wres = [w \in WorkerIds |-> NoResult]
    /\ whist = [w \in WorkerIds |-> [k \in 1..cfg.nOps |-> NoHist]]
    /\ wfaults = 0
    /\ rpc = [r \in WorkerIds |-> "absent"]
    /\ rres = [r \in WorkerIds |-> NoResult]
    /\ rmeasured = [r \in WorkerIds |-> 0]
    /\ rsent = [r \in WorkerIds |-> FALSE]
    /\ query_timings = [r \in WorkerIds |-> 0]
    /\ kpc = "absent"
    /\ kres = NoResult
    /\ scripts = {}
    /\ notified = {}
    /\ updCh = <<>>
    /\ rdCh = <<>>
    /\ killCh = <<>>

Init ==
    /\ \E c \in Configs : InitRun(c)
    /\ gen = NoGen
    /\ canon = NoCanon

Alive == exitStatus = Running

(***************************************************************************)
(* The start barrier (tokio::sync::Barrier).                               *)
(***************************************************************************)
\* Barrier::wait, the arrival: the last party of a generation opens the next
\* generation; a party goes on once the generation it arrived in is over.
IsLeader == barrier.arrived + 1 = BarrierParties

Arrive(p) ==
    /\ waitGen' = [waitGen EXCEPT ![p] = barrier.generation]
    /\ barrier' = IF IsLeader
                  THEN [arrived |-> 0, generation |-> barrier.generation + 1]
                  ELSE [barrier EXCEPT !.arrived = @ + 1]

\* Barrier::wait, the return of a party that waited.
Released(p) == barrier.generation > waitGen[p]

(***************************************************************************)
(* stop_notify (tokio::sync::Notify).                                      *)
(***************************************************************************)
\* The parties that hold a Notified future: a reader or the kill worker from
\* the moment it enters its select! until its execute returns.
Listening ==
    {R(r) : r \in {x \in WorkerIds : rpc[x] \in {"selecting", "req_wait"}}}
        \cup (IF kpc \in {"sleeping", "killing", "restarting"} THEN {K} ELSE {})

\* Notify::notify_waiters: wakes the Notified futures that exist now; no
\* permit is kept for a future created later.
NotifyWaiters ==
    /\ notified' = notified \cup Listening
    /\ cancelFired' = cancelFired + 1

(***************************************************************************)
(* The supervisor: run (main.rs).                                          *)
(***************************************************************************)
\* A panic of `run` unwinds through main: exit status 101.
PanicStatus == 101

\* tokio::sync::mpsc::channel(buffer) panics when buffer is 0.
ChannelPanics(buffer) == buffer = 0

\* main.rs:219-235: the barrier, the writers' channel, the writer tasks.
SupSpawnWriters ==
    /\ Alive /\ spc = "init"
    /\ UNCHANGED <<gen, canon>>
    /\ IF ChannelPanics(cfg.nW)
       THEN /\ exitStatus' = PanicStatus
            /\ spc' = "panicked"
            /\ UNCHANGED wpc
       ELSE /\ wpc' = [w \in WorkerIds |-> IF w \in Writers THEN "spawned" ELSE "absent"]
            /\ spc' = "spawn_readers"
            /\ UNCHANGED exitStatus
    /\ UNCHANGED <<cfg, nUpdateErrors, cancelFired, barrier, waitGen, wop, wres,
                   whist, wfaults, rpc, rres, rmeasured, rsent,
                   query_timings, kpc, kres, scripts, notified,
                   updCh, rdCh, killCh>>

\* main.rs:237-255: stop_notify, the readers' channel, the reader tasks.
SupSpawnReaders ==
    /\ Alive /\ spc = "spawn_readers"
    /\ UNCHANGED <<gen, canon>>
    /\ IF ChannelPanics(cfg.nR)
       THEN /\ exitStatus' = PanicStatus
            /\ spc' = "panicked"
            /\ UNCHANGED rpc
       ELSE /\ rpc' = [r \in WorkerIds |-> IF r \in Readers THEN "spawned" ELSE "absent"]
            /\ spc' = "spawn_killer"
            /\ UNCHANGED exitStatus
    /\ UNCHANGED <<cfg, nUpdateErrors, cancelFired, barrier, waitGen, wpc, wop,
                   wres, whist, wfaults, rres, rmeasured, rsent,
                   query_timings, kpc, kres, scripts, notified,
                   updCh, rdCh, killCh>>

\* main.rs:257-275: the kill worker's channel and task, the senders dropped.
SupSpawnKiller ==
    /\ Alive /\ spc = "spawn_killer"
    /\ UNCHANGED <<gen, canon>>
    /\ kpc' = IF HasKiller THEN "spawned" ELSE "absent"
    /\ spc' = IF cfg.mode = "verify" /\ cfg.durability THEN "start_script" ELSE "barrier"
    /\ UNCHANGED <<cfg, exitStatus, nUpdateErrors, cancelFired, barrier, waitGen,
                   wpc, wop, wres, whist, wfaults, rpc, rres, rmeasured, rsent,
                   query_timings, kres, scripts,
                   notified, updCh, rdCh, killCh>>

\* main.rs:278-293: how `sh -c start_script` ends: it could not be spawned,
\* or it ran to its end with exit status zero or non-zero.
StartOutcomes == {"exit_zero", "exit_nonzero", "spawn_err"}

\* (A supervisor that goes on whatever the start script did.)
StartScriptExit_Ignored(out) ==
    spc' = "barrier" /\ UNCHANGED exitStatus

\* main.rs:283-293: only Ok(status) with status.success() lets the run go
\* on; otherwise run returns Err and main exits with status 1.
StartScriptExit(out) ==
    IF out = "exit_zero"
    THEN spc' = "barrier" /\ UNCHANGED exitStatus
    ELSE spc' = "aborted" /\ exitStatus' = 1

\* main.rs:277-282: `sh -c start_script` is spawned; if it cannot be, `run`
\* returns Err.
SupStartScript ==
    /\ Alive /\ spc = "start_script"
    /\ UNCHANGED <<gen, canon>>
    /\ \E sp \in SpawnOutcomes :
          IF sp = "spawned"
          THEN /\ spc' = "start_running"
               /\ scripts' = scripts \cup {"start"}
               /\ UNCHANGED exitStatus
          ELSE /\ StartScriptExit("spawn_err")
               /\ UNCHANGED scripts
    /\ UNCHANGED <<cfg, nUpdateErrors, cancelFired, barrier, waitGen, wpc, wop,
                   wres, whist, wfaults, rpc, rres, rmeasured, rsent,
                   query_timings, kpc, kres, notified,
                   updCh, rdCh, killCh>>

\* main.rs:282-293: status().await returns with the exit of the start script,
\* while the worker tasks have been running; a non-zero exit returns Err.
SupStartScriptExit ==
    /\ Alive /\ spc = "start_running"
    /\ UNCHANGED <<gen, canon>>
    /\ \E out \in ScriptOutcomes : StartScriptExit(out)
    /\ UNCHANGED scripts
    /\ UNCHANGED <<cfg, nUpdateErrors, cancelFired, barrier, waitGen, wpc, wop,
                   wres, whist, wfaults, rpc, rres, rmeasured, rsent,
                   query_timings, kpc, kres, notified,
                   updCh, rdCh, killCh>>

\* main.rs:296: start_barrier.wait(), the arrival.
SupArrive ==
    /\ Alive /\ spc = "barrier"
    /\ UNCHANGED <<gen, canon>>
    /\ Arrive(S)
    /\ spc' = "atbarrier"
    /\ UNCHANGED <<cfg, exitStatus, nUpdateErrors, cancelFired, wpc, wop, wres,
                   whist, wfaults, rpc, rres, rmeasured, rsent,
                   query_timings, kpc, kres, scripts, notified,
                   updCh, rdCh, killCh>>

\* main.rs:296-304: start_barrier.wait() returns; in stress mode the duration
\* timer fires and the waiters are notified; then n_update_errors = 0 and the
\* run loop is entered.
SupEnterLoop ==
    /\ Alive /\ spc = "atbarrier"
    /\ UNCHANGED <<gen, canon>>
    /\ Released(S)
    /\ IF cfg.mode = "stress"
       THEN NotifyWaiters
       ELSE UNCHANGED <<notified, cancelFired>>
    /\ nUpdateErrors' = 0
    /\ spc' = "loop"
    /\ UNCHANGED <<cfg, exitStatus, barrier, waitGen, wpc, wop, wres, whist,
                   wfaults, rpc, rres, rmeasured, rsent,
                   query_timings, kpc, kres, scripts, updCh, rdCh, killCh>>

\* Receiver::recv returns None: the channel is empty and every sender is dropped
\* (the supervisor's own senders are dropped at main.rs:273-275, a task's
\* sender when the task ends).
\* (A receiver that takes an empty channel for a closed one.)
UpdatesClosed_EmptyOnly == updCh = <<>>

UpdatesClosed == updCh = <<>> /\ \A w \in Writers : wpc[w] = "finished"
ReadersClosed == rdCh = <<>> /\ \A r \in Readers : rpc[r] = "finished"

\* main.rs:308-313: a writer's completion message is received.
SupRecvUpdate ==
    /\ Alive /\ spc = "loop"
    /\ UNCHANGED <<gen, canon>>
    /\ updCh # <<>>
    /\ nUpdateErrors' = IF Head(updCh).result.kind # "Ok"
                        THEN nUpdateErrors + 1
                        ELSE nUpdateErrors
    /\ updCh' = Tail(updCh)
    /\ UNCHANGED <<cfg, spc, exitStatus, cancelFired, barrier, waitGen, wpc, wop,
                   wres, whist, wfaults, rpc, rres, rmeasured, rsent,
                   query_timings, kpc, kres, scripts, notified,
                   rdCh, killCh>>

\* main.rs:314-316 and 327-333: the writers' channel is closed, the loop is
\* left and the waiters are notified.
SupLeaveLoop ==
    /\ Alive /\ spc = "loop"
    /\ UNCHANGED <<gen, canon>>
    /\ UpdatesClosed
    /\ NotifyWaiters
    /\ spc' = "collect"
    /\ UNCHANGED <<cfg, exitStatus, nUpdateErrors, barrier, waitGen, wpc, wop,
                   wres, whist, wfaults, rpc, rres, rmeasured, rsent,
                   query_timings, kpc, kres, scripts, updCh,
                   rdCh, killCh>>

\* main.rs:318-323: the kill worker's completion message is received; an Err
\* makes `run` return Err at once, anything else goes round the loop.
SupRecvKill ==
    /\ Alive /\ spc = "loop"
    /\ UNCHANGED <<gen, canon>>
    /\ killCh # <<>>
    /\ killCh' = Tail(killCh)
    /\ IF Head(killCh).result.kind # "Ok"
       THEN spc' = "returned" /\ exitStatus' = 1
       ELSE UNCHANGED <<spc, exitStatus>>
    /\ UNCHANGED <<cfg, nUpdateErrors, cancelFired, barrier, waitGen, wpc, wop,
                   wres, whist, wfaults, rpc, rres, rmeasured, rsent,
                   query_timings, kpc, kres, scripts, notified,
                   updCh, rdCh>>

\* (A supervisor that counts a reader's error as a failure of the run.)
ReaderReport_Enforced(msg) ==
    /\ nUpdateErrors' = IF msg.result.kind = "Ok"
                        THEN nUpdateErrors ELSE nUpdateErrors + 1
    /\ UNCHANGED <<spc, exitStatus>>

\* main.rs:338-355: the Ok arm logs the reader's average, the Err arm logs
\* the error; neither touches n_update_errors or leaves the loop.
ReaderReport(msg) ==
    UNCHANGED <<nUpdateErrors, spc, exitStatus>>

\* main.rs:337-356: a reader's completion message is received.
SupRecvReader ==
    /\ Alive /\ spc = "collect"
    /\ UNCHANGED <<gen, canon>>
    /\ rdCh # <<>>
    /\ rdCh' = Tail(rdCh)
    /\ ReaderReport(Head(rdCh))
    /\ UNCHANGED <<cfg, cancelFired, barrier,
                   waitGen, wpc, wop, wres, whist, wfaults, rpc, rres, rmeasured, rsent,
                   query_timings, kpc, kres, scripts,
                   notified, updCh, killCh>>

\* main.rs:337 and 358-371: the readers' channel is closed; with the
\* durability subcommand the kill script is spawned once more (363-365, not
\* waited for, a failure to spawn it is dropped); `run` returns Err if n_update_errors > 0 and Ok otherwise.
SupFinish ==
    /\ Alive /\ spc = "collect"
    /\ UNCHANGED <<gen, canon>>
    /\ ReadersClosed
    /\ spc' = "returned"
    /\ \E sp \in SpawnOutcomes :
          scripts' = IF HasKiller /\ sp = "spawned"
                     THEN scripts \cup {"final_kill"}
                     ELSE scripts
    /\ exitStatus' = IF nUpdateErrors > 0 THEN 1 ELSE 0
    /\ UNCHANGED <<cfg, nUpdateErrors, cancelFired, barrier, waitGen, wpc, wop,
                   wres, whist, wfaults, rpc, rres, rmeasured, rsent,
                   query_timings, kpc, kres, notified,
                   updCh, rdCh, killCh>>

(***************************************************************************)
(* Update workers: the task of main.rs:228-234 around UpdateWorker::execute.*)
(***************************************************************************)
UnchangedSup == UNCHANGED <<cfg, spc, exitStatus, nUpdateErrors, cancelFired>>
UnchangedReaders == UNCHANGED <<rpc, rres, rmeasured, rsent, query_timings>>
UnchangedKiller == UNCHANGED <<kpc, kres, scripts>>
UnchangedWriterData == UNCHANGED <<wop, wres, whist, wfaults>>

\* main.rs:229: start_barrier.wait(), the arrival.
WArrive(w) ==
    /\ Alive /\ wpc[w] = "spawned"
    /\ UNCHANGED <<gen, canon>>
    /\ Arrive(W(w))
    /\ wpc' = [wpc EXCEPT ![w] = "atbarrier"]
    /\ UnchangedSup /\ UnchangedReaders /\ UnchangedKiller /\ UnchangedWriterData
    /\ UNCHANGED <<notified, updCh, rdCh, killCh>>

\* The history of writer w after one more mutation request of operation k.
SentMutation(h, k) == [h EXCEPT ![k].mutSent = @ + 1]

\* The history of writer w after one more pair of verification queries.
\* (A verification round that sends the mutation again as well.)
SentVerify_Resend(h, k) == [h EXCEPT ![k].verSent = @ + 1, ![k].mutSent = @ + 1]

SentVerify(h, k) == [h EXCEPT ![k].verSent = @ + 1]

\* (A writer task that sends its result twice.)
WriterReturns_Twice(w, res) ==
    /\ wres' = [wres EXCEPT ![w] = res]
    /\ updCh' = updCh \o <<[worker_id |-> w, result |-> res],
                           [worker_id |-> w, result |-> res]>>
    /\ wpc' = [wpc EXCEPT ![w] = "finished"]

\* main.rs:233: the result is sent on the writers' channel and the task ends.
WriterReturns(w, res) ==
    /\ wres' = [wres EXCEPT ![w] = res]
    /\ updCh' = Append(updCh, [worker_id |-> w, result |-> res])
    /\ wpc' = [wpc EXCEPT ![w] = "finished"]

\* main.rs:229-232 and update_worker.rs:216-218: start_barrier.wait()
\* returns, execute starts and the first mutation is sent.
WBegin(w) ==
    /\ Alive /\ wpc[w] = "atbarrier"
    /\ UNCHANGED <<gen, canon>>
    /\ Released(W(w))
    /\ wpc' = [wpc EXCEPT ![w] = "issue_wait"]
    /\ whist' = [whist EXCEPT ![w] = SentMutation(@, wop[w])]
    /\ UnchangedSup /\ UnchangedReaders /\ UnchangedKiller
    /\ UNCHANGED <<barrier, waitGen, wop, wres, wfaults, notified, updCh, rdCh, killCh>>

\* Whether the store's answer counts against the writer's transport errors.
IsFault(out) == out.t # "resp"

\* update_worker.rs:217-233: the answer to the mutation of the current
\* operation. Continue sends the mutation again, Break sends the two
\* verification queries, Err ends the worker with UpdateFailed.
IssueResp(w, out) ==
    /\ IsFault(out) => wfaults < MaxFaults(cfg)
    /\ wfaults' = IF IsFault(out) THEN wfaults + 1 ELSE wfaults
    /\ LET k == wop[w]
           r == issue_update(Behav, out)
       IN  IF r.tag = "Continue"
           THEN /\ whist' = [whist EXCEPT ![w] = SentMutation(@, k)]
                /\ UNCHANGED <<wpc, wres, updCh>>
           ELSE IF r.tag = "Break"
           THEN /\ whist' = [whist EXCEPT ![w] =
                                SentVerify([@ EXCEPT ![k].ack = out.status], k)]
                /\ wpc' = [wpc EXCEPT ![w] = "verify_wait"]
                /\ UNCHANGED <<wres, updCh>>
           ELSE /\ WriterReturns(w, ErrResult("UpdateFailed", UpdateId(k), r.cause))
                /\ UNCHANGED whist
    /\ UnchangedSup /\ UnchangedReaders /\ UnchangedKiller
    /\ UNCHANGED <<barrier, waitGen, wop, notified, rdCh, killCh>>

WIssueResp(w) ==
    /\ Alive /\ wpc[w] = "issue_wait"
    /\ UNCHANGED <<gen, canon>>
    /\ \E out \in SendOutcomes : IssueResp(w, out)

\* update_worker.rs:238-240: the guard of the matching arm.
StateMatches(k, r) ==
    /\ r.default = Queries(cfg.nOps)[k].validation_default
    /\ r.named = Queries(cfg.nOps)[k].validation_named

\* (A loop that ends after the first operation.)
IsLastOp_First(k) == k = 1

\* update_worker.rs:216 and 268: the for loop ends after the last operation.
IsLastOp(k) == k = Len(Queries(cfg.nOps))

\* update_worker.rs:235-265: both verification queries of the current
\* operation are answered. Continue sends both again, a match goes on to the
\* next operation (or returns Ok after the last), a mismatch ends the worker
\* with InvalidState, Err ends it with UpdateVerifyFailed.
VerifyResp(w, outD, outN) ==
    /\ (IsFault(outD) \/ IsFault(outN)) => wfaults < MaxFaults(cfg)
    /\ wfaults' = IF IsFault(outD) \/ IsFault(outN) THEN wfaults + 1 ELSE wfaults
    /\ LET k == wop[w]
           r == read_current_state(Behav, outD, outN)
       IN  IF r.tag = "Continue"
           THEN /\ whist' = [whist EXCEPT ![w] = SentVerify(@, k)]
                /\ UNCHANGED <<wpc, wop, wres, updCh>>
           ELSE IF r.tag = "Err"
           THEN /\ WriterReturns(w, ErrResult("UpdateVerifyFailed", UpdateId(k), r.cause))
                /\ UNCHANGED <<whist, wop>>
           ELSE IF ~StateMatches(k, r)
           THEN /\ WriterReturns(w, ErrResult("InvalidState", UpdateId(k), "none"))
                /\ UNCHANGED <<whist, wop>>
           ELSE IF IsLastOp(k)
           THEN /\ WriterReturns(w, OkResult)
                /\ whist' = [whist EXCEPT ![w][k].verOk = TRUE]
                /\ UNCHANGED wop
           ELSE /\ wop' = [wop EXCEPT ![w] = k + 1]
                /\ whist' = [whist EXCEPT ![w] =
                                SentMutation([@ EXCEPT ![k].verOk = TRUE], k + 1)]
                /\ wpc' = [wpc EXCEPT ![w] = "issue_wait"]
                /\ UNCHANGED <<wres, updCh>>
    /\ UnchangedSup /\ UnchangedReaders /\ UnchangedKiller
    /\ UNCHANGED <<barrier, waitGen, notified, rdCh, killCh>>

WVerifyResp(w) ==
    /\ Alive /\ wpc[w] = "verify_wait"
    /\ UNCHANGED <<gen, canon>>
    /\ \E outD, outN \in ReadOutcomes : VerifyResp(w, outD, outN)

(***************************************************************************)
(* Random read workers: the task of main.rs:245-254 around execute.        *)
(***************************************************************************)
RArrive(r) ==
    /\ Alive /\ rpc[r] = "spawned"
    /\ UNCHANGED <<gen, canon>>
    /\ Arrive(R(r))
    /\ rpc' = [rpc EXCEPT ![r] = "atbarrier"]
    /\ UnchangedSup /\ UnchangedKiller /\ UnchangedWriterData
    /\ UNCHANGED <<wpc, rres, rmeasured, rsent, query_timings, notified, updCh, rdCh, killCh>>

\* (A reader task that ends without sending its result.)
ReaderReturns_Silent(r, res) ==
    /\ rres' = [rres EXCEPT ![r] = res]
    /\ rpc' = [rpc EXCEPT ![r] = "finished"]
    /\ UNCHANGED rdCh

\* main.rs:250-253: the result is sent on the readers' channel, the task ends.
ReaderReturns(r, res) ==
    /\ rres' = [rres EXCEPT ![r] = res]
    /\ rdCh' = Append(rdCh, [worker_id |-> r, result |-> res])
    /\ rpc' = [rpc EXCEPT ![r] = "finished"]

\* main.rs:246-249 and random_read_worker.rs:105-125: start_barrier.wait()
\* returns, execute enters its select!: stop.notified() is created; the
\* first request has not reached the store yet.
RBegin(r) ==
    /\ Alive /\ rpc[r] = "atbarrier"
    /\ UNCHANGED <<gen, canon>>
    /\ Released(R(r))
    /\ rpc' = [rpc EXCEPT ![r] = "selecting"]
    /\ UnchangedSup /\ UnchangedKiller /\ UnchangedWriterData
    /\ UNCHANGED <<barrier, waitGen, wpc, rres, rmeasured, rsent, query_timings,
                   notified, updCh, rdCh, killCh>>

\* random_read_worker.rs:110-113: the first request is sent.
RSend(r) ==
    /\ Alive /\ rpc[r] = "selecting"
    /\ UNCHANGED <<gen, canon>>
    /\ rpc' = [rpc EXCEPT ![r] = "req_wait"]
    /\ rsent' = [rsent EXCEPT ![r] = TRUE]
    /\ UnchangedSup /\ UnchangedKiller /\ UnchangedWriterData
    /\ UNCHANGED <<barrier, waitGen, wpc, rres, rmeasured, query_timings,
                   notified, updCh, rdCh, killCh>>

\* random_read_worker.rs:110: the id next_query gives with the query. The
\* synthetic generator gives None; the file-backed generator gives the index
\* of the query in the file, and the query file of the model holds one query.
next_query_id == IF cfg.queryFile THEN "Some" ELSE "None"

\* (A reader that records something for every request that did not end it.)
Recorded_AnyOutcome(timings, qid, dur) ==
    IF qid = "Some" THEN timings + 1 ELSE timings

\* random_read_worker.rs:117-119: the duration is pushed to the bucket of the
\* query only if the query has an id and the request was measured.
Recorded(timings, qid, dur) ==
    IF qid = "Some" /\ dur = "Some" THEN timings + 1 ELSE timings

\* random_read_worker.rs:130-138: the map {qid -> qps} execute returns, by its
\* number of entries: one per bucket, and a bucket exists once a duration was
\* pushed to it.
QpsMap(timings) == IF timings > 0 THEN 1 ELSE 0

\* (A reader that reports its cancellation as an error.)
OkQps_Cancelled(timings) ==
    [kind |-> "ReadFailed", update_id |-> -1, cause |-> "cancelled", qps |-> 0,
     samples |-> 0]

\* The Ok result of a reader: the map of QPS values, and the number of
\* durations its averages were taken over (durations.len(), line 132).
OkQps(timings) ==
    [kind |-> "Ok", update_id |-> -1, cause |-> "none", qps |-> QpsMap(timings),
     samples |-> timings]

\* random_read_worker.rs:109-120: the request is answered; Err ends the
\* reader with ReadFailed, otherwise the duration (if any) is recorded and
\* the next request is sent.
ReadResp(r, out) ==
    /\ LET m == measure_query(Behav, out)
       IN  /\ m.tag = "Some" => rmeasured[r] < MaxMeasured(cfg)
           /\ IF m.tag = "Err"
              THEN /\ ReaderReturns(r, ErrResult("ReadFailed", -1, m.cause))
                   /\ UNCHANGED <<rmeasured, query_timings>>
              ELSE /\ rmeasured' = [rmeasured EXCEPT ![r] =
                                        IF m.tag = "Some" THEN @ + 1 ELSE @]
                   /\ query_timings' = [query_timings EXCEPT ![r] =
                                        Recorded(@, next_query_id, m.tag)]
                   /\ UNCHANGED <<rpc, rres, rdCh>>
    /\ UnchangedSup /\ UnchangedKiller /\ UnchangedWriterData
    /\ UNCHANGED <<barrier, waitGen, wpc, rsent, notified, updCh, killCh>>

RResp(r) ==
    /\ Alive /\ rpc[r] = "req_wait"
    /\ UNCHANGED <<gen, canon>>
    /\ \E out \in ReadOutcomes : ReadResp(r, out)

\* random_read_worker.rs:123-139: the Notified future completes, execute
\* drops the request in flight (or not yet sent) and returns Ok with the
\* QPS map.
RStop(r) ==
    /\ Alive /\ rpc[r] \in {"selecting", "req_wait"}
    /\ UNCHANGED <<gen, canon>>
    /\ R(r) \in notified
    /\ ReaderReturns(r, OkQps(query_timings[r]))
    /\ UnchangedSup /\ UnchangedKiller /\ UnchangedWriterData
    /\ UNCHANGED <<barrier, waitGen, wpc, rmeasured, rsent, query_timings, notified,
                   updCh, killCh>>

(***************************************************************************)
(* The kill worker: the task of main.rs:264-270 around KillWorker::execute.*)
(***************************************************************************)
KArrive ==
    /\ Alive /\ kpc = "spawned"
    /\ UNCHANGED <<gen, canon>>
    /\ Arrive(K)
    /\ kpc' = "atbarrier"
    /\ UnchangedSup /\ UnchangedReaders /\ UnchangedWriterData
    /\ UNCHANGED <<wpc, kres, scripts, notified, updCh, rdCh, killCh>>

\* main.rs:269: the result is sent on the kill worker's channel, the task ends.
KillerReturns(res) ==
    /\ kres' = res
    /\ killCh' = Append(killCh, [result |-> res])
    /\ kpc' = "finished"

\* main.rs:265-268 and kill_worker.rs:44-55: start_barrier.wait() returns,
\* execute enters its select!: stop.notified() is created and the first
\* sleep starts.
KBegin ==
    /\ Alive /\ kpc = "atbarrier"
    /\ UNCHANGED <<gen, canon>>
    /\ Released(K)
    /\ kpc' = "sleeping"
    /\ UnchangedSup /\ UnchangedReaders /\ UnchangedWriterData
    /\ UNCHANGED <<barrier, waitGen, wpc, kres, scripts, notified, updCh, rdCh, killCh>>

\* kill_worker.rs:26 in kill(): `sh -c kill_script` is spawned; if it cannot
\* be, run_command returns the error and execute returns KillFailed.
KillSpawn(sp) ==
    IF sp = "spawned"
    THEN /\ kpc' = "killing"
         /\ scripts' = scripts \cup {"kill"}
         /\ UNCHANGED <<kres, killCh>>
    ELSE /\ KillerReturns(ErrResult("KillFailed", -1, sp))
         /\ UNCHANGED scripts

\* kill_worker.rs:26 in restart(): the same for the restart script.
RestartSpawn(sp) ==
    IF sp = "spawned"
    THEN /\ kpc' = "restarting"
         /\ scripts' = scripts \cup {"restart"}
         /\ UNCHANGED <<kres, killCh>>
    ELSE /\ KillerReturns(ErrResult("RestartFailed", -1, sp))
         /\ UNCHANGED scripts

\* kill_worker.rs:47-48: the sleep ends and the kill script is spawned.
KSleepDone ==
    /\ Alive /\ kpc = "sleeping"
    /\ UNCHANGED <<gen, canon>>
    /\ \E sp \in SpawnOutcomes : KillSpawn(sp)
    /\ UnchangedSup /\ UnchangedReaders /\ UnchangedWriterData
    /\ UNCHANGED <<barrier, waitGen, wpc, notified, updCh, rdCh>>

\* kill_worker.rs:48-49: the kill script ends; on success the restart script
\* is spawned, otherwise execute returns KillFailed.
KillExited(out) ==
    IF run_command(out) = "Ok"
    THEN \E sp \in SpawnOutcomes : RestartSpawn(sp)
    ELSE /\ KillerReturns(ErrResult("KillFailed", -1, out))
         /\ UNCHANGED scripts

KKillExit ==
    /\ Alive /\ kpc = "killing"
    /\ UNCHANGED <<gen, canon>>
    /\ \E out \in ScriptOutcomes : KillExited(out)
    /\ UnchangedSup /\ UnchangedReaders /\ UnchangedWriterData
    /\ UNCHANGED <<barrier, waitGen, wpc, notified, updCh, rdCh>>

\* kill_worker.rs:49 and 46-47: the restart script ends; on success the next
\* sleep starts, otherwise execute returns RestartFailed.
RestartExited(out) ==
    IF run_command(out) = "Ok"
    THEN kpc' = "sleeping" /\ UNCHANGED <<kres, killCh, scripts>>
    ELSE /\ KillerReturns(ErrResult("RestartFailed", -1, out))
         /\ UNCHANGED scripts

KRestartExit ==
    /\ Alive /\ kpc = "restarting"
    /\ UNCHANGED <<gen, canon>>
    /\ \E out \in ScriptOutcomes : RestartExited(out)
    /\ UnchangedSup /\ UnchangedReaders /\ UnchangedWriterData
    /\ UNCHANGED <<barrier, waitGen, wpc, notified, updCh, rdCh>>

\* kill_worker.rs:53-56: the Notified future completes, execute returns Ok.
KStop ==
    /\ Alive /\ kpc \in {"sleeping", "killing", "restarting"}
    /\ UNCHANGED <<gen, canon>>
    /\ K \in notified
    /\ KillerReturns(OkResult)
    /\ UNCHANGED scripts
    /\ UnchangedSup /\ UnchangedReaders /\ UnchangedWriterData
    /\ UNCHANGED <<barrier, waitGen, wpc, notified, updCh, rdCh>>

(***************************************************************************)
(* The specification.                                                      *)
(***************************************************************************)
WriterArrive == \E w \in Writers : WArrive(w)
WriterBegin == \E w \in Writers : WBegin(w)
WriterIssueResp == \E w \in Writers : WIssueResp(w)
WriterVerifyResp == \E w \in Writers : WVerifyResp(w)

ReaderArrive == \E r \in Readers : RArrive(r)
ReaderBegin == \E r \in Readers : RBegin(r)
ReaderSend == \E r \in Readers : RSend(r)
ReaderResp == \E r \in Readers : RResp(r)
ReaderStop == \E r \in Readers : RStop(r)

Next ==
    \/ SupSpawnWriters
    \/ SupSpawnReaders
    \/ SupSpawnKiller
    \/ SupStartScript
    \/ SupStartScriptExit
    \/ SupArrive
    \/ SupEnterLoop
    \/ SupRecvUpdate
    \/ SupRecvKill
    \/ SupLeaveLoop
    \/ SupRecvReader
    \/ SupFinish
    \/ WriterArrive
    \/ WriterBegin
    \/ WriterIssueResp
    \/ WriterVerifyResp
    \/ ReaderArrive
    \/ ReaderBegin
    \/ ReaderSend
    \/ ReaderResp
    \/ ReaderStop
    \/ KArrive
    \/ KBegin
    \/ KSleepDone
    \/ KKillExit
    \/ KRestartExit
    \/ KStop

Spec == Init /\ [][Next]_vars

\* The runtime polls every task that can go on: the supervisor up to its run
\* loop, and every worker task up to the start of its execute. (No fairness
\* is put on the start script, the store or the kill and restart scripts.)
StartFairness ==
    /\ WF_vars(SupSpawnWriters)
    /\ WF_vars(SupSpawnReaders)
    /\ WF_vars(SupSpawnKiller)
    /\ WF_vars(SupArrive)
    /\ WF_vars(SupEnterLoop)
    /\ \A w \in WorkerIds : WF_vars(WArrive(w)) /\ WF_vars(WBegin(w))
    /\ \A r \in WorkerIds : WF_vars(RArrive(r)) /\ WF_vars(RBegin(r))
    /\ WF_vars(KArrive)
    /\ WF_vars(KBegin)

FairSpec == Spec /\ StartFairness

\* The harness at rest, for the specifications that exercise one function.
IdleConfig ==
    [mode |-> "stress", nW |-> 0, nR |-> 0, nOps |-> 1, durability |-> FALSE,
     queryFile |-> FALSE]

(***************************************************************************)
(* FileSourceQueryGenerator on its own (random_read_worker.rs:29-64).      *)
(***************************************************************************)
\* The longest query file, in lines.
MaxQueries == 3

\* The lines a query file is made of: three query texts and the empty line.
FileLines == {"", "SELECT a", "SELECT b", "SELECT c"}

QueryFiles == UNION {[1..n -> FileLines] : n \in 0..MaxQueries}

\* random_read_worker.rs:42: .filter(|l| !l.is_empty())
RECURSIVE NonEmptyLines(_)
NonEmptyLines(ls) ==
    IF ls = <<>> THEN <<>>
    ELSE IF Head(ls) = "" THEN NonEmptyLines(Tail(ls))
    ELSE <<Head(ls)>> \o NonEmptyLines(Tail(ls))

\* FileSourceQueryGenerator::new. Beside the three fields of the struct the
\* record holds what the last call returned (ret) and the texts returned
\* since the cursor was last 0 (pass).
NewGenerator(file) ==
    [status |-> "ready",
     queries_original_order |-> NonEmptyLines(file),
     queries |-> NonEmptyLines(file),
     ix |-> 0,
     ret |-> [id |-> -1, query |-> ""],
     pass |-> <<>>]

\* (A shuffle that draws every position anew: entries can repeat or vanish.)
Shuffles_Sampling(n) == [1..n -> 1..n]

\* The orders slice::shuffle can leave n elements in.
Shuffles(n) == {p \in [1..n -> 1..n] : \A i, j \in 1..n : p[i] = p[j] => i = j}

\* random_read_worker.rs:60: iter().position(|q| q == ret_query), scanning
\* from the front; the index is counted from 0 and None is -1.
RECURSIVE PositionFrom(_, _, _)
PositionFrom(orig, q, i) ==
    IF i > Len(orig) THEN -1
    ELSE IF orig[i] = q THEN i - 1
    ELSE PositionFrom(orig, q, i + 1)

\* (A lookup that gives the index in the working list.)
position_Working(g, cur_ix, q) == cur_ix

\* random_read_worker.rs:60: the lookup in queries_original_order.
position(g, cur_ix, q) == PositionFrom(g.queries_original_order, q, 1)

\* FileSourceQueryGenerator::next_query with the order p the shuffle leaves:
\* shuffle if the cursor is 0, advance the cursor modulo the length, return
\* the query under the old cursor with its index in the original order.
next_query(g, p) ==
    LET cur_ix == g.ix
        queries == IF cur_ix = 0
                   THEN [i \in 1..Len(g.queries) |-> g.queries[p[i]]]
                   ELSE g.queries
        ret_query == queries[cur_ix + 1]
    IN  [g EXCEPT !.queries = queries,
                  !.ix = (g.ix + 1) % Len(g.queries),
                  !.ret = [id |-> position(g, cur_ix, ret_query),
                           query |-> ret_query],
                  !.pass = IF cur_ix = 0 THEN <<ret_query>>
                           ELSE Append(g.pass, ret_query)]

GenInit ==
    /\ InitRun(IdleConfig)
    /\ canon = NoCanon
    /\ \E file \in QueryFiles : gen = NewGenerator(file)

\* random_read_worker.rs:57: with no query in the file the remainder by
\* queries.len() = 0 panics.
GenPanic ==
    /\ gen.status = "ready"
    /\ Len(gen.queries) = 0
    /\ gen' = [gen EXCEPT !.status = "panicked"]
    /\ UNCHANGED <<runVars, canon>>

GenNextQuery ==
    /\ gen.status = "ready"
    /\ Len(gen.queries) > 0
    /\ \E p \in Shuffles(Len(gen.queries)) : gen' = next_query(gen, p)
    /\ UNCHANGED <<runVars, canon>>

GenNext == GenPanic \/ GenNextQuery

GenSpec == GenInit /\ [][GenNext]_vars

(***************************************************************************)
(* normalize_dbstate on its own (update_worker.rs:14-20).                  *)
(***************************************************************************)
\* The longest state given to normalize_dbstate, in bytes.
MaxLen == 4

\* The bytes of a state: the line feed, the carriage return, the tab, the
\* space and two letters.
StateBytes == {NL, CR, HT, SP, ChA, ChB}

DbStates == UNION {[1..n -> StateBytes] : n \in 0..MaxLen}

\* The state that holds the lines of `state` in the order p, every line
\* ended by a line feed.
PermuteLines(state, p) ==
    JoinLines([i \in 1..Len(Lines(state)) |-> Lines(state)[p[i]]])

CanonInit ==
    /\ InitRun(IdleConfig)
    /\ gen = NoGen
    /\ \E state \in DbStates :
         canon = [stage |-> "input", input |-> state, other |-> <<>>,
                  out |-> <<>>, out2 |-> <<>>]

\* normalize_dbstate applied to the input and then to its own result.
CanonTwice ==
    /\ canon.stage = "input"
    /\ canon' = [canon EXCEPT !.stage = "twice",
                              !.other = normalize_dbstate(canon.input),
                              !.out = normalize_dbstate(canon.input),
                              !.out2 = normalize_dbstate(normalize_dbstate(canon.input))]
    /\ UNCHANGED <<runVars, gen>>

\* normalize_dbstate applied to the input and to a permutation of its lines,
\* the two states update_worker.rs:238-240 compares.
CanonPermuted ==
    /\ canon.stage = "input"
    /\ \E p \in Shuffles(Len(Lines(canon.input))) :
         canon' = [canon EXCEPT !.stage = "permuted",
                                !.other = PermuteLines(canon.input, p),
                                !.out = normalize_dbstate(canon.input),
                                !.out2 = normalize_dbstate(PermuteLines(canon.input, p))]
    /\ UNCHANGED <<runVars, gen>>

CanonNext == CanonTwice \/ CanonPermuted

CanonSpec == CanonInit /\ [][CanonNext]_vars

(***************************************************************************)
(* History read off the state.                                             *)
(***************************************************************************)
\* The parties that have performed I/O: a writer that sent a mutation, a
\* reader that sent a query, the kill worker that has started a script.
WriterDidIO(w) == whist[w][1].mutSent > 0
ReaderDidIO(r) == rsent[r]
KillerDidIO == "kill" \in scripts \/ "restart" \in scripts

\* Every spawned worker task and the supervisor have arrived at the barrier.
SupArrived == spc \in {"atbarrier", "loop", "collect", "returned"}
AllArrived ==
    /\ SupArrived
    /\ \A w \in Writers : wpc[w] \notin {"absent", "spawned"}
    /\ \A r \in Readers : rpc[r] \notin {"absent", "spawned"}
    /\ HasKiller => kpc \notin {"absent", "spawned"}

WriterFailed(w) == wres[w].kind \notin {"none", "Ok"}
KillerFailed == kres.kind \in {"KillFailed", "RestartFailed"}

\* Every writer has ended and its completion message has been received.
AllWritersReported ==
    /\ \A w \in Writers : wpc[w] = "finished"
    /\ updCh = <<>>

(***************************************************************************)
(* Claims.                                                                 *)
(***************************************************************************)
\* C1 (start rendezvous): no writer, reader or kill worker performs I/O
\* before every worker task and the supervisor have arrived at the barrier.
C1_StartRendezvous ==
    ((\E w \in Writers : WriterDidIO(w))
        \/ (\E r \in Readers : ReaderDidIO(r))
        \/ KillerDidIO)
    => AllArrived

\* A writer, a reader and the kill worker have all performed I/O.
C1_Witness ==
    /\ \E w \in Writers : WriterDidIO(w)
    /\ \E r \in Readers : ReaderDidIO(r)
    /\ KillerDidIO

\* C2 (shutdown ordering, verify mode): notify_waiters is never called while
\* a writer is still running or its report is still unread; the step in which
\* a writer ends with an error, and the step in which the supervisor receives
\* such a report, neither fire the signal nor change another writer, and the
\* supervisor stays in its run loop.
C2_ShutdownOrdering ==
    /\ [](cfg.mode = "verify" /\ cancelFired > 0 => AllWritersReported)
    /\ [][/\ \A w \in Writers :
                (~WriterFailed(w) /\ WriterFailed(w)')
                => /\ cancelFired' = cancelFired
                   /\ \A v \in Writers \ {w} : wpc'[v] = wpc[v] /\ wres'[v] = wres[v]
          /\ nUpdateErrors' > nUpdateErrors
                => /\ cancelFired' = cancelFired
                   /\ spc' = "loop"
                   /\ wpc' = wpc]_vars

\* One writer's failure has been counted while another writer is still
\* running, and the signal has not been fired.
C2_Witness ==
    /\ cfg.mode = "verify"
    /\ nUpdateErrors > 0
    /\ cancelFired = 0
    /\ \E w \in Writers : wpc[w] \in {"issue_wait", "verify_wait"}

\* C3 (reliable cancellation, verify mode), as stated: once the supervisor
\* has fired the signal, every reader that has not returned has observed it.
C3_ReliableCancellation ==
    (cfg.mode = "verify" /\ cancelFired > 0)
    => \A r \in Readers : rpc[r] = "finished" \/ R(r) \in notified

\* C4 (exit status), as stated: a run that went through its run loop ends
\* with status 0 exactly if no writer and not the kill worker reported an error.
C4_ExitStatus ==
    spc = "returned"
    => (exitStatus = 0 <=> ((\A w \in Writers : ~WriterFailed(w)) /\ ~KillerFailed))

\* C5 (killer failure is fatal for everyone), as stated: when the kill worker
\* has reported KillFailed or RestartFailed and the run returns, the signal
\* has been fired and the status is not 0.
C5_KillerFailureCancels ==
    (spc = "returned" /\ KillerFailed)
    => (cancelFired > 0 /\ exitStatus # 0)

\* Whether an answer carries an HTTP status other than 2xx.
IsNon2xx(out) == out.t # "send_err" /\ out.status # "2xx"

\* C6 (operation ordering), as stated: a mutation or a verification query of
\* operation k+1 is sent only after the mutation of operation k has received
\* a 2xx and the verification of operation k has matched.
C6_OperationOrdering ==
    \A w \in Writers : \A k \in 2..cfg.nOps :
        (whist[w][k].mutSent > 0 \/ whist[w][k].verSent > 0)
        => (whist[w][k - 1].ack = "2xx" /\ whist[w][k - 1].verOk)

\* C7 (retry completeness under IgnoreConnectionError), the safety half as
\* stated: a writer has advanced past an operation (or returned Ok after the
\* last one) only after a round in which the mutation was answered 2xx and
\* the verification matched.
C7_AdvanceOnlyAfterSuccessfulRound ==
    Behav = IgnoreConnectionError
    => \A w \in Writers : \A k \in 1..cfg.nOps :
          (wop[w] > k \/ wres[w].kind = "Ok")
          => (whist[w][k].ack = "2xx" /\ whist[w][k].verOk)

\* C8 (retry iff IgnoreConnectionError).  A request of an operation is sent a
\* second time only under IgnoreConnectionError, and a writer ends because of
\* a transport error only under ReportConnectionError.  Under
\* IgnoreConnectionError the step that handles a transport error during Issue
\* leaves the writer on the same operation, with no result, and sends the
\* mutation of that operation once more.  Under ReportConnectionError the step
\* that handles a transport error ends the writer, with UpdateFailed during
\* Issue and with UpdateVerifyFailed during Verify, and sends nothing.
C8_RetryIffIgnore ==
    /\ [](\A w \in Writers :
            /\ (\E k \in 1..cfg.nOps :
                    whist[w][k].mutSent > 1 \/ whist[w][k].verSent > 1)
               => Behav = IgnoreConnectionError
            /\ wres[w].cause = "transport" => Behav = ReportConnectionError)
    /\ [][/\ \A w \in Writers : \A out \in SendOutcomes :
               (wpc[w] = "issue_wait" /\ IsFault(out) /\ IssueResp(w, out))
               => IF Behav = IgnoreConnectionError
                  THEN /\ wpc'[w] = "issue_wait"
                       /\ wop'[w] = wop[w]
                       /\ wres'[w] = NoResult
                       /\ whist'[w] = [whist[w] EXCEPT ![wop[w]].mutSent = @ + 1]
                  ELSE /\ wpc'[w] = "finished"
                       /\ wres'[w].kind = "UpdateFailed"
                       /\ whist'[w] = whist[w]
          /\ \A w \in Writers : \A outD, outN \in ReadOutcomes :
               (/\ wpc[w] = "verify_wait"
                /\ Behav = ReportConnectionError
                /\ IsFault(outD) \/ IsFault(outN)
                /\ VerifyResp(w, outD, outN))
               => /\ wpc'[w] = "finished"
                  /\ wres'[w].kind = "UpdateVerifyFailed"
                  /\ whist'[w] = whist[w]]_vars

\* Under IgnoreConnectionError a writer has sent the mutation of an operation
\* a second time after a transport error.
C8_Witness ==
    /\ Behav = IgnoreConnectionError
    /\ \E w \in Writers : whist[w][wop[w]].mutSent = 2

\* C9 (a non-2xx response is never retried or ignored), as stated: the step
\* that handles a non-2xx answer to a mutation ends the writer with
\* UpdateFailed, the step that handles a non-2xx answer to either verification
\* query ends it with UpdateVerifyFailed, and the step that handles a non-2xx
\* answer to a reader's query ends the reader with ReadFailed.
C9_Non2xxIsFatal ==
    [][/\ \A w \in Writers : \A out \in SendOutcomes :
            (wpc[w] = "issue_wait" /\ IsNon2xx(out) /\ IssueResp(w, out))
            => wres'[w].kind = "UpdateFailed"
       /\ \A w \in Writers : \A outD, outN \in ReadOutcomes :
            (/\ wpc[w] = "verify_wait"
             /\ IsNon2xx(outD) \/ IsNon2xx(outN)
             /\ VerifyResp(w, outD, outN))
            => wres'[w].kind = "UpdateVerifyFailed"
       /\ \A r \in Readers : \A out \in ReadOutcomes :
            (rpc[r] = "req_wait" /\ IsNon2xx(out) /\ ReadResp(r, out))
            => rres'[r].kind = "ReadFailed"]_vars

\* C10 (a state mismatch halts the script).  A writer that ended with
\* InvalidState carries the file index of the operation it was verifying and
\* has sent nothing for any later operation; the step that handles two
\* verification answers whose bodies were read, of which one differs from the
\* expectation, ends the writer with InvalidState without sending anything;
\* and a writer that has ended sends nothing any more.
C10_MismatchHalts ==
    /\ [](\A w \in Writers :
            wres[w].kind = "InvalidState"
            => /\ wpc[w] = "finished"
               /\ wres[w].update_id = FileIndexOf(Queries(cfg.nOps)[wop[w]])
               /\ ~whist[w][wop[w]].verOk
               /\ \A j \in (wop[w] + 1)..cfg.nOps : whist[w][j] = NoHist)
    /\ [][\A w \in Writers :
            /\ \A outD, outN \in ReadOutcomes :
                (/\ wpc[w] = "verify_wait"
                 /\ read_current_state(Behav, outD, outN).tag = "Break"
                 /\ \/ NormalizedBody[outD.body]
                         # NormalizedOps[wop[w]].validation_default
                    \/ NormalizedBody[outN.body]
                         # NormalizedOps[wop[w]].validation_named
                 /\ VerifyResp(w, outD, outN))
                => /\ wres'[w].kind = "InvalidState"
                   /\ whist'[w] = whist[w]
            /\ wpc[w] = "finished" => whist'[w] = whist[w] /\ wres'[w] = wres[w]]_vars

\* A writer ended with InvalidState at its second operation, op_1.json.
C10_Witness ==
    \E w \in Writers :
        /\ wres[w].kind = "InvalidState"
        /\ wop[w] = 2
        /\ wres[w].update_id = 1

\* An answer of the store with status 2xx whose body was read.
IsCleanResp(out) == out.t = "resp" /\ out.status = "2xx"

\* C11 (happy path).  While no writer met a transport error and no writer
\* ended with an error, every mutation was sent at most once and in script
\* order, a writer that ended returned Ok having sent every mutation of its
\* script exactly once, and the run, if it returns with no error reported by
\* the kill worker, exits with status 0.  The step that handles a 2xx answer
\* to a mutation sends the verification queries of the same operation, and
\* the step that handles two 2xx verification answers with the expected state
\* advances: it sends the mutation of the next operation, or returns Ok when
\* the script is exhausted.
C11_HappyPath ==
    /\ []((wfaults = 0 /\ \A w \in Writers : ~WriterFailed(w))
          => /\ \A w \in Writers : \A k \in 1..cfg.nOps :
                  /\ whist[w][k].mutSent <= 1
                  /\ (k > 1 /\ whist[w][k].mutSent = 1)
                     => (whist[w][k - 1].mutSent = 1 /\ whist[w][k - 1].verOk)
                  /\ wpc[w] = "finished"
                     => (wres[w].kind = "Ok" /\ whist[w][k].mutSent = 1)
             /\ (spc = "returned" /\ ~KillerFailed) => exitStatus = 0)
    /\ [][\A w \in Writers :
            /\ \A out \in SendOutcomes :
                (wpc[w] = "issue_wait" /\ IsCleanResp(out) /\ IssueResp(w, out))
                => /\ wpc'[w] = "verify_wait"
                   /\ wop'[w] = wop[w]
                   /\ whist'[w][wop[w]].mutSent = whist[w][wop[w]].mutSent
            /\ \A outD, outN \in ReadOutcomes :
                (/\ wpc[w] = "verify_wait"
                 /\ IsCleanResp(outD) /\ IsCleanResp(outN)
                 /\ NormalizedBody[outD.body] = NormalizedOps[wop[w]].validation_default
                 /\ NormalizedBody[outN.body] = NormalizedOps[wop[w]].validation_named
                 /\ VerifyResp(w, outD, outN))
                => IF wop[w] = cfg.nOps
                   THEN wres'[w].kind = "Ok" /\ wpc'[w] = "finished"
                   ELSE /\ wop'[w] = wop[w] + 1
                        /\ wpc'[w] = "issue_wait"
                        /\ whist'[w][wop[w] + 1].mutSent = 1]_vars

\* A run of two writers with a reader, without transport errors, in which
\* both writers returned Ok and the process exited with status 0.
C11_Witness ==
    /\ cfg.nW = 2
    /\ wfaults = 0
    /\ \A w \in Writers : wres[w].kind = "Ok" /\ whist[w][cfg.nOps].mutSent = 1
    /\ spc = "returned"
    /\ exitStatus = 0

\* C12 (cancellation returns success).  The step in which a reader or the
\* kill worker leaves its select! through stop.notified() returns Ok, whatever
\* was in flight; a reader that returned Ok had been woken by the signal; and
\* an error a reader or the kill worker returned was caused by an answer of
\* the store, by the exit of a script or by a script that could not be
\* spawned, never by the cancellation.
C12_CancellationReturnsOk ==
    /\ [](/\ \A r \in Readers :
               /\ rres[r].kind = "Ok" => R(r) \in notified
               /\ rres[r].kind \notin {"none", "Ok"}
                  => (rres[r].kind = "ReadFailed"
                      /\ rres[r].cause \in {"transport", "status"})
          /\ kres.kind = "Ok" => K \in notified
          /\ kres.kind \notin {"none", "Ok"}
             => (KillerFailed /\ kres.cause \in {"exit_nonzero", "spawn_err"}))
    /\ [][/\ \A r \in Readers :
               RStop(r) => (rres'[r].kind = "Ok" /\ rpc'[r] = "finished")
          /\ KStop => (kres'.kind = "Ok" /\ kpc' = "finished")]_vars

\* A reader and the kill worker were both stopped by the signal and both
\* returned Ok.
C12_Witness ==
    /\ \E r \in Readers : rpc[r] = "finished" /\ rres[r].kind = "Ok"
    /\ kpc = "finished" /\ kres.kind = "Ok"

\* C13 (reader transport-error policy).  The step of a reader that handles a
\* request which failed in transport, while it was sent or while its body was
\* read, records no duration and leaves the reader in its loop, sending the
\* next query, under IgnoreConnectionError; under ReportConnectionError it
\* ends the reader with ReadFailed, and the reader sends nothing more.
C13_ReaderTransportPolicy ==
    /\ [](\A r \in Readers :
            /\ rres[r].cause = "transport"
               => (Behav = ReportConnectionError /\ rres[r].kind = "ReadFailed"
                   /\ rpc[r] = "finished")
            /\ query_timings[r] <= rmeasured[r])
    /\ [][\A r \in Readers :
            /\ \A out \in ReadOutcomes :
                (rpc[r] = "req_wait" /\ IsFault(out) /\ ReadResp(r, out))
                => IF Behav = IgnoreConnectionError
                   THEN /\ query_timings'[r] = query_timings[r]
                        /\ rmeasured'[r] = rmeasured[r]
                        /\ rpc'[r] = "req_wait"
                        /\ rres'[r] = NoResult
                   ELSE /\ rres'[r] = ErrResult("ReadFailed", -1, "transport")
                        /\ rpc'[r] = "finished"
                        /\ query_timings'[r] = query_timings[r]
            /\ rpc[r] = "finished"
               => /\ rpc'[r] = "finished" /\ rres'[r] = rres[r]
                  /\ rmeasured'[r] = rmeasured[r]
                  /\ query_timings'[r] = query_timings[r]]_vars

\* Under ReportConnectionError a reader that had measured a request ended
\* with ReadFailed on a transport error while a writer was still at work.
C13_Witness ==
    /\ Behav = ReportConnectionError
    /\ \E r \in Readers :
        /\ rres[r] = ErrResult("ReadFailed", -1, "transport")
        /\ rmeasured[r] > 0
    /\ \E w \in Writers : wpc[w] \in {"issue_wait", "verify_wait"}

\* C14 (stress mode), as stated, the safety half: a stress run never ends
\* with a status other than 0.
C14_StressExitsZero ==
    cfg.mode = "stress" => exitStatus \in {Running, 0}

\* C15 (server bootstrap).  The start script has run to its end before the
\* supervisor arrives at the barrier: until it is spawned and while it runs
\* the supervisor has not arrived, the barrier is not released and no worker
\* has performed I/O.  The step that handles a start script that exited
\* non-zero, and the step in which it could not be spawned, abort the run
\* with a non-zero status; after that the barrier is never released, no
\* writer, reader or kill worker has performed or ever performs any I/O, and
\* nothing changes any more.
C15_ServerBootstrap ==
    /\ [](/\ spc \in {"start_script", "start_running"}
             => (HasKiller /\ barrier.generation = 0 /\ waitGen[S] = 0
                 /\ barrier.arrived < BarrierParties
                 /\ ("start" \in scripts <=> spc = "start_running")
                 /\ \A w \in Writers : ~WriterDidIO(w)
                 /\ \A r \in Readers : ~ReaderDidIO(r)
                 /\ ~KillerDidIO)
          /\ spc = "aborted"
             => /\ exitStatus \notin {Running, 0}
                /\ barrier.generation = 0
                /\ \A w \in Writers : ~WriterDidIO(w)
                /\ \A r \in Readers : ~ReaderDidIO(r)
                /\ ~KillerDidIO)
    /\ [][/\ \A out \in StartOutcomes \ {"exit_zero"} :
               (spc \in {"start_script", "start_running"} /\ StartScriptExit(out))
               => (spc' = "aborted" /\ exitStatus' \notin {Running, 0})
          /\ (spc = "start_running" /\ StartScriptExit("exit_zero"))
               => (spc' = "barrier" /\ exitStatus' = Running)
          /\ spc' = "barrier" /\ spc # "barrier" /\ HasKiller
               => (spc = "start_running" /\ StartScriptExit("exit_zero"))
          /\ spc = "aborted" => UNCHANGED vars]_vars

\* The run was aborted by its start script, which had run while a writer, a
\* reader and the kill worker arrived at the barrier.
C15_Witness ==
    /\ spc = "aborted"
    /\ "start" \in scripts
    /\ \E w \in Writers : wpc[w] = "atbarrier"
    /\ \E r \in Readers : rpc[r] = "atbarrier"
    /\ kpc = "atbarrier"

\* C16 (reader failures are not enforced).  The exit status of a run that
\* returned is a function of the writers' results and of the kill worker's
\* report alone: it is 1 if a writer failed or an error of the kill worker was
\* received, and 0 otherwise, whichever readers returned ReadFailed.  The
\* step in which a reader ends with ReadFailed changes nothing of the
\* supervisor, of the writers, of the kill worker or of another reader and
\* fires no signal, and the step in which the supervisor receives a reader's
\* report changes nothing but the readers' channel.
C16_ReaderFailuresNotEnforced ==
    /\ [](spc = "returned"
          => exitStatus =
               IF (\E w \in Writers : WriterFailed(w))
                  \/ (KillerFailed /\ killCh = <<>>)
               THEN 1 ELSE 0)
    /\ [][/\ \A r \in Readers :
               (rres[r].kind = "none" /\ rres'[r].kind = "ReadFailed")
               => /\ UNCHANGED <<spc, exitStatus, nUpdateErrors, cancelFired,
                                 notified, wpc, wop, wres, whist, kpc, kres,
                                 updCh, killCh>>
                  /\ \A q \in Readers \ {r} :
                        rpc'[q] = rpc[q] /\ rres'[q] = rres[q]
          /\ (spc = "collect" /\ rdCh # <<>> /\ rdCh' = Tail(rdCh))
               => UNCHANGED <<spc, exitStatus, nUpdateErrors, cancelFired,
                              notified, wpc, wres, rpc, rres, kpc, kres>>]_vars

\* A run in which a reader returned ReadFailed, its report was received, and
\* the process exited with status 0.
C16_Witness ==
    /\ spc = "returned"
    /\ exitStatus = 0
    /\ rdCh = <<>>
    /\ \E r \in Readers : rres[r].kind = "ReadFailed"
    /\ \E r \in Readers : rres[r].kind = "Ok"

\* C17 (query-id stability).  The id the file-backed generator returns with
\* a query is, after any number of shuffles, the smallest index of the
\* original order that holds the returned text; the original order never
\* changes, so the same text always comes with the same id.
C17_QueryIdStability ==
    /\ [](gen.status = "ready" /\ gen.ret.id # -1
          => /\ gen.ret.id \in 0..(Len(gen.queries_original_order) - 1)
             /\ gen.queries_original_order[gen.ret.id + 1] = gen.ret.query
             /\ \A j \in 1..gen.ret.id :
                   gen.queries_original_order[j] # gen.ret.query)
    /\ [][gen.status = "ready"
          => /\ gen'.queries_original_order = gen.queries_original_order
             /\ gen'.status = "ready" => gen'.ret.id # -1]_vars

\* The working list is shuffled out of the original order and the generator
\* has just returned, from the end of the working list, a text the file
\* holds twice: the id is that of its first occurrence.
C17_Witness ==
    /\ gen.status = "ready"
    /\ gen.queries_original_order = <<"SELECT a", "SELECT b", "SELECT a">>
    /\ gen.queries = <<"SELECT b", "SELECT a", "SELECT a">>
    /\ gen.ix = 0
    /\ gen.pass = <<"SELECT b", "SELECT a", "SELECT a">>
    /\ gen.ret = [id |-> 0, query |-> "SELECT a"]

\* C18 (canonicalization is order-insensitive).  A state and any state that
\* holds the same lines in another order have the same canonical form, so the
\* comparison of update_worker.rs:238-240 finds them equal.
C18_OrderInsensitive ==
    canon.stage = "permuted" => canon.out2 = canon.out

\* A state of two different lines and the state with the two lines swapped.
C18_Witness ==
    /\ canon.stage = "permuted"
    /\ canon.input = <<ChB, NL, ChA>>
    /\ canon.other = <<ChA, NL, ChB, NL>>
    /\ canon.out = <<ChA, NL, ChB, NL>>

\* C19 (canonicalization is idempotent).  normalize_dbstate applied to its own
\* result gives that result again, for every state; the empty state is its
\* own canonical form, and the canonical form of a state holds no line with
\* leading or trailing whitespace.
C19_Idempotent ==
    canon.stage = "twice"
    => /\ canon.out2 = canon.out
       /\ canon.input = <<>> => canon.out = <<>>
       /\ \A i \in 1..Len(Lines(canon.out)) :
             Trim(Lines(canon.out)[i]) = Lines(canon.out)[i]
       /\ Len(Lines(canon.out)) = Len(Lines(canon.input))

\* A state with a line out of order and a whitespace-only line, normalized
\* twice.
C19_Witness ==
    /\ canon.stage = "twice"
    /\ canon.input = <<ChB, NL, SP>>
    /\ canon.out = <<NL, ChB, NL>>
    /\ canon.out2 = <<NL, ChB, NL>>

\* C20 (reported reader QPS in the happy path), as stated: a reader that uses
\* the synthetic query generator, measured at least one request and returned
\* on cancellation reports at least one QPS value.
C20_ReadersReportQps ==
    \A r \in Readers :
        (~cfg.queryFile /\ rres[r].kind = "Ok" /\ rmeasured[r] >= 1)
        => rres[r].qps > 0

\* Whether an answer carries a status error_for_status() rejects.
IsErrorStatus(out) == out.t # "send_err" /\ error_for_status(out.status)

\* The step of writer w that handles the answers outD and outN sends both
\* verification queries of the same operation again and does nothing else.
VerifyRetried(w) ==
    /\ wpc'[w] = "verify_wait"
    /\ wop'[w] = wop[w]
    /\ wres'[w] = NoResult
    /\ whist'[w] = [whist[w] EXCEPT ![wop[w]].verSent = @ + 1]

\* C21 (verification is all-or-retry), as stated: under IgnoreConnectionError
\* the step that handles a round in which either verification query suffered
\* a transport error uses neither result and sends both queries again.
C21_AllOrRetry_AsStated ==
    [][\A w \in Writers : \A outD, outN \in ReadOutcomes :
          (/\ wpc[w] = "verify_wait"
           /\ Behav = IgnoreConnectionError
           /\ IsFault(outD) \/ IsFault(outN)
           /\ VerifyResp(w, outD, outN))
          => VerifyRetried(w)]_vars

\* C21 (verification is all-or-retry), amended.  Both verification queries of
\* an operation are sent in one step and answered in one step.  The state is
\* compared (the writer advances, returns Ok or returns InvalidState) only in
\* a round in which both queries were answered and both bodies were read.
\* Under IgnoreConnectionError a round in which either query suffered a
\* transport error sends both queries again and uses neither result, unless
\* the other query was answered with an error status: then the writer ends
\* with UpdateVerifyFailed.
C21_AllOrRetry ==
    [][\A w \in Writers : \A outD, outN \in ReadOutcomes :
          (wpc[w] = "verify_wait" /\ VerifyResp(w, outD, outN))
          => /\ (\/ whist'[w][wop[w]].verOk
                 \/ wres'[w].kind \in {"Ok", "InvalidState"}
                 \/ wop'[w] # wop[w])
                => (outD.t = "resp" /\ outN.t = "resp")
             /\ (Behav = IgnoreConnectionError /\ (IsFault(outD) \/ IsFault(outN)))
                => IF IsErrorStatus(outD) \/ IsErrorStatus(outN)
                   THEN /\ wres'[w].kind = "UpdateVerifyFailed"
                        /\ whist'[w] = whist[w]
                   ELSE VerifyRetried(w)
             /\ whist'[w][wop[w]].verSent > whist[w][wop[w]].verSent
                => (Behav = IgnoreConnectionError
                    /\ (IsFault(outD) \/ IsFault(outN)))]_vars

\* Under IgnoreConnectionError a writer sent the verification queries of an
\* operation a second time and the second round matched.
C21_Witness ==
    /\ Behav = IgnoreConnectionError
    /\ \E w \in Writers : \E k \in 1..cfg.nOps :
          whist[w][k].verSent = 2 /\ whist[w][k].verOk

\* C22 (latency buckets), as stated for the request in flight when the cancel
\* signal fired: under ReportConnectionError a reader that has measured nothing
\* yet is still waiting for its first request, so once the signal reached it,
\* that request was in flight when the signal fired and adds no duration.
C22_InFlightAtCancel_AsStated ==
    [][\A r \in Readers :
          (/\ Behav = ReportConnectionError
           /\ rmeasured[r] = 0
           /\ rpc[r] = "req_wait"
           /\ R(r) \in notified)
          => query_timings'[r] = query_timings[r]]_vars

\* C22 (latency buckets only grow and only from completed requests), amended.
\* The buckets of a reader never shrink; a step adds one duration, and only
\* the step that handles a request whose answer passed error_for_status and
\* whose body was read in full; the step that handles a request that failed
\* or was dropped as transient adds nothing; the request that is dropped when
\* the reader leaves through stop.notified() adds nothing; and the map the
\* reader then returns is taken over every duration recorded until then.
C22_LatencyBuckets ==
    /\ [](\A r \in Readers :
            /\ rres[r].kind = "Ok"
               => (/\ rres[r].samples = query_timings[r]
                   /\ rres[r].qps = QpsMap(query_timings[r]))
            /\ query_timings[r] <= rmeasured[r])
    /\ [][\A r \in Readers :
            /\ query_timings'[r] >= query_timings[r]
            /\ query_timings'[r] # query_timings[r]
               => /\ rpc[r] = "req_wait"
                  /\ query_timings'[r] = query_timings[r] + 1
                  /\ rmeasured'[r] = rmeasured[r] + 1
                  /\ \E out \in ReadOutcomes :
                        /\ out.t = "resp" /\ ~error_for_status(out.status)
                        /\ ReadResp(r, out)
            /\ \A out \in ReadOutcomes :
                  (rpc[r] = "req_wait" /\ ReadResp(r, out)
                   /\ (out.t # "resp" \/ error_for_status(out.status)))
                  => query_timings'[r] = query_timings[r]
            /\ RStop(r) => (/\ query_timings'[r] = query_timings[r]
                            /\ rres'[r].samples = query_timings[r])]_vars

\* A reader recorded a duration, was cancelled afterwards and returned a map
\* that counts the duration.
C22_Witness ==
    \E r \in Readers :
        /\ rpc[r] = "finished"
        /\ rres[r].kind = "Ok"
        /\ rres[r].samples >= 1
        /\ query_timings[r] >= 1

\* How often the text t occurs in the list.
Occurrences(list, t) == Cardinality({i \in 1..Len(list) : list[i] = t})

\* Whether two lists hold the same texts, each as often.
IsPermutation(a, b) ==
    /\ Len(a) = Len(b)
    /\ \A t \in FileLines : Occurrences(a, t) = Occurrences(b, t)

\* C23 (file-backed generator passes).  With n >= 1 queries in the catalogue:
\* the working list is always a permutation of the original order; a call
\* changes the working list only when the cursor is 0; every call moves the
\* cursor from ix to (ix + 1) % n; the texts returned since the cursor was
\* last 0 are the front of the working list; so when the cursor is back at 0
\* the n calls of the pass returned every entry of the catalogue once.
C23_GeneratorPasses ==
    /\ [](gen.status = "ready" /\ Len(gen.queries_original_order) > 0
          => /\ IsPermutation(gen.queries, gen.queries_original_order)
             /\ gen.ix \in 0..(Len(gen.queries) - 1)
             /\ Len(gen.pass) = IF gen.ret.id = -1 THEN 0
                                ELSE IF gen.ix = 0 THEN Len(gen.queries)
                                ELSE gen.ix
             /\ \A i \in 1..Len(gen.pass) : gen.pass[i] = gen.queries[i]
             /\ (gen.ix = 0 /\ gen.ret.id # -1)
                => IsPermutation(gen.pass, gen.queries_original_order))
    /\ [][(gen.status = "ready" /\ gen'.status = "ready")
          => /\ gen'.ix = (gen.ix + 1) % Len(gen.queries_original_order)
             /\ gen'.queries # gen.queries => gen.ix = 0
             /\ gen'.ret.query = gen'.queries[gen.ix + 1]]_vars

\* A pass over three different queries has just ended: the working list is
\* not in the original order and the three calls returned each query once.
C23_Witness ==
    /\ gen.status = "ready"
    /\ gen.queries_original_order = <<"SELECT a", "SELECT b", "SELECT c">>
    /\ gen.queries = <<"SELECT c", "SELECT a", "SELECT b">>
    /\ gen.ix = 0
    /\ gen.pass = <<"SELECT c", "SELECT a", "SELECT b">>

\* The steps the kill worker can take from one position to the next.
KillerCycle ==
    {<<"absent", "spawned">>,
     <<"spawned", "atbarrier">>, <<"atbarrier", "sleeping">>,
     <<"sleeping", "killing">>, <<"killing", "restarting">>,
     <<"restarting", "sleeping">>,
     <<"sleeping", "finished">>, <<"killing", "finished">>,
     <<"restarting", "finished">>}

\* C24 (fault-injector cycle).  The kill worker moves only along sleep, kill
\* script, restart script, sleep; the restart script is started only by the
\* step in which the kill script exits 0 (that step ends the kill worker with
\* RestartFailed when the restart script cannot be spawned); a kill script
\* that exits non-zero ends the kill worker with KillFailed and starts no
\* restart script, and a restart script that exits non-zero ends it with
\* RestartFailed, each reported once; and a kill worker that has returned
\* runs no script any more (the one script started after
\* that is the kill script the supervisor spawns when `run` returns from the
\* shutdown phase).
C24_InjectorCycle ==
    /\ [](/\ kres.kind \in {"none", "Ok", "KillFailed", "RestartFailed"}
          /\ kres.kind # "none" <=> kpc = "finished"
          /\ ~HasKiller => (kpc = "absent" /\ scripts = {})
          /\ "restart" \in scripts => "kill" \in scripts
          /\ kres.kind \notin {"none", "Ok"}
             => kres.cause \in {"exit_nonzero", "spawn_err"}
          /\ (kres.kind = "KillFailed" /\ kres.cause = "exit_nonzero")
             => "kill" \in scripts
          /\ kres.kind = "RestartFailed" => "kill" \in scripts
          /\ (kres.kind = "RestartFailed" /\ kres.cause = "exit_nonzero")
             => "restart" \in scripts)
    /\ [][/\ kpc' # kpc => (HasKiller /\ <<kpc, kpc'>> \in KillerCycle)
          /\ kpc = "finished" => (kpc' = "finished" /\ kres' = kres)
          /\ kpc' = "killing" /\ kpc # "killing"
             => (kpc = "sleeping" /\ "kill" \in scripts')
          /\ kpc' = "restarting" /\ kpc # "restarting" => "restart" \in scripts'
          /\ (scripts' \ scripts) \cap {"kill", "restart"} # {}
             => \/ kpc = "sleeping" /\ kpc' = "killing"
                \/ kpc = "killing" /\ kpc' = "restarting"
          /\ (kpc = "finished" /\ scripts' # scripts)
             => (scripts' = scripts \cup {"final_kill"} /\ spc = "collect"
                 /\ spc' = "returned")
          /\ kpc' = "restarting" /\ kpc # "restarting"
             => (kpc = "killing" /\ KillExited("exit_zero"))
          /\ \A out \in ScriptOutcomes :
                /\ (Alive /\ kpc = "killing" /\ KillExited(out))
                   => IF out = "exit_zero"
                      THEN \/ /\ kpc' = "restarting"
                              /\ kres' = kres /\ killCh' = killCh
                           \/ /\ kpc' = "finished"
                              /\ kres'.kind = "RestartFailed"
                              /\ kres'.cause = "spawn_err"
                              /\ scripts' = scripts
                              /\ killCh' = Append(killCh, [result |-> kres'])
                      ELSE /\ kpc' = "finished"
                           /\ kres'.kind = "KillFailed"
                           /\ scripts' = scripts
                           /\ killCh' = Append(killCh, [result |-> kres'])
                /\ (Alive /\ kpc = "restarting" /\ RestartExited(out))
                   => IF out = "exit_zero"
                      THEN kpc' = "sleeping" /\ kres' = kres /\ killCh' = killCh
                      ELSE /\ kpc' = "finished"
                           /\ kres'.kind = "RestartFailed"
                           /\ killCh' = Append(killCh, [result |-> kres'])]_vars

\* The kill script exited 0, the restart script ran and exited non-zero: the
\* kill worker has returned RestartFailed.
C24_Witness ==
    /\ kpc = "finished"
    /\ kres.kind = "RestartFailed"
    /\ kres.cause = "exit_nonzero"
    /\ scripts = {"start", "kill", "restart"}

\* The completion messages of writer w that wait in the writers' channel.
PendingFrom(w) == {i \in 1..Len(updCh) : updCh[i].worker_id = w}

\* The completion messages with an error that wait in the writers' channel.
PendingErrors == {i \in 1..Len(updCh) : updCh[i].result.kind # "Ok"}

\* The writers whose execute returned an error.
FailedWriters == {w \in Writers : WriterFailed(w)}

\* C25 (writer accounting), as stated: the supervisor's run loop is left only
\* after every writer has ended and its completion message has been received.
C25_LoopExit_AsStated ==
    [][(spc = "loop" /\ spc' # "loop") => AllWritersReported]_vars

\* C25 (writer accounting), amended.  A writer task sends one completion
\* message, in the step in which its execute returns, and none before or
\* after; the message carries the writer's result.  While the supervisor is
\* in its run loop the errors counted and the error messages still in the
\* channel add up to the writers that have failed.  The run loop is left for
\* the shutdown phase only when every writer has reported, and then the error
\* count is the number of writers whose result was an error; the one other
\* way out of the loop is the return on an error of the kill worker.
C25_WriterAccounting ==
    /\ [](/\ \A w \in Writers :
               LET sent == Cardinality(PendingFrom(w))
               IN  /\ sent <= 1
                   /\ wpc[w] # "finished" => sent = 0
                   /\ \A i \in 1..Len(updCh) :
                         updCh[i].worker_id = w => updCh[i].result = wres[w]
          /\ spc \in {"loop", "collect"}
             => nUpdateErrors + Cardinality(PendingErrors)
                    = Cardinality(FailedWriters)
          /\ spc = "collect"
             => (AllWritersReported /\ nUpdateErrors = Cardinality(FailedWriters)))
    /\ [][/\ \A w \in Writers :
               /\ (wpc[w] # "finished" /\ wpc'[w] = "finished")
                  => updCh' = Append(updCh, [worker_id |-> w, result |-> wres'[w]])
               /\ wpc[w] = "finished"
                  => (wpc'[w] = "finished" /\ wres'[w] = wres[w])
          /\ Len(updCh') > Len(updCh)
             => \E w \in Writers : wpc[w] # "finished" /\ wpc'[w] = "finished"
          /\ (spc = "loop" /\ spc' = "collect")
             => (AllWritersReported /\ nUpdateErrors = Cardinality(FailedWriters))
          /\ (spc = "loop" /\ spc' \notin {"loop", "collect"})
             => (killCh # <<>> /\ Head(killCh).result.kind # "Ok"
                 /\ spc' = "returned")]_vars

\* Two writers have reported, one with an error; the supervisor has left its
\* run loop with an error count of one.
C25_Witness ==
    /\ cfg.nW = 2
    /\ spc = "collect"
    /\ nUpdateErrors = 1
    /\ Cardinality(FailedWriters) = 1
    /\ \E w \in Writers : wres[w].kind = "Ok"

\* The start script is absent and the run begins, or it has exited 0.
StartScriptPassed ==
    \/ ~HasKiller /\ spc = "init"
    \/ HasKiller /\ spc = "barrier"

\* Barrier::wait has returned for the parties of the first generation.
BarrierReleased == barrier.generation > 0

\* Every writer, every reader and the kill worker has entered its execute.
AllExecuting ==
    /\ \A w \in Writers : wpc[w] \notin {"absent", "spawned", "atbarrier"}
    /\ \A r \in Readers : rpc[r] \notin {"absent", "spawned", "atbarrier"}
    /\ HasKiller => kpc \notin {"absent", "spawned", "atbarrier"}

\* C26 (barrier liveness), as stated: when the start script is absent or has
\* exited 0, the barrier is eventually released and every writer, every
\* reader and the kill worker eventually starts executing.
C26_BarrierLiveness ==
    StartScriptPassed ~> (BarrierReleased /\ AllExecuting)

\* main.rs:238: the readers' channel holds num_random_read_workers messages.
ReadersCapacity == cfg.nR

\* The completion message of reader r waits in the readers' channel.
ReaderBuffered(r) == \E i \in 1..Len(rdCh) : rdCh[i].worker_id = r

\* C27 (reader completions), as stated: no completion message of a reader is
\* lost, so the process never ends with one still unread in the channel.
C27_NeverLost_AsStated ==
    ~Alive => rdCh = <<>>

\* C27 (reader completions are buffered and not blocking), amended.  The
\* step in which a reader's execute returns puts its one completion message
\* into the readers' channel, which has room for it, and changes nothing of
\* the supervisor; while the supervisor is in its run loop the messages stay
\* in the channel; a message is taken out only in the shutdown phase, after
\* notify_waiters, and one at a time; and a run that returns from the
\* shutdown phase has received the message of every reader.  (A run that
\* returns from the run loop on an error of the kill worker receives none.)
C27_ReaderCompletions ==
    /\ [](/\ Len(rdCh) <= ReadersCapacity
          /\ \A r \in Readers :
                /\ Cardinality({i \in 1..Len(rdCh) : rdCh[i].worker_id = r}) <= 1
                /\ ReaderBuffered(r) => rpc[r] = "finished"
                /\ \A i \in 1..Len(rdCh) :
                      rdCh[i].worker_id = r => rdCh[i].result = rres[r]
          /\ (spc = "returned" /\ cancelFired > 0)
             => (rdCh = <<>> /\ \A r \in Readers : rpc[r] = "finished"))
    /\ [][/\ \A r \in Readers :
               (rpc[r] # "finished" /\ rpc'[r] = "finished")
               => /\ Len(rdCh) < ReadersCapacity
                  /\ rdCh' = Append(rdCh, [worker_id |-> r, result |-> rres'[r]])
                  /\ UNCHANGED <<spc, exitStatus, nUpdateErrors, cancelFired,
                                 updCh, killCh>>
          /\ spc = "loop"
             => \/ rdCh' = rdCh
                \/ \E r \in Readers :
                      rdCh' = Append(rdCh, [worker_id |-> r, result |-> rres'[r]])
          /\ Len(rdCh') < Len(rdCh)
             => /\ spc = "collect" /\ spc' = "collect"
                /\ cancelFired > 0
                /\ rdCh' = Tail(rdCh)
                /\ rpc' = rpc
          /\ (spc = "collect" /\ spc' = "returned")
             => (rdCh = <<>> /\ \A r \in Readers : rpc[r] = "finished")]_vars

\* A reader has ended with ReadFailed while a writer is still running: its
\* message waits in the channel and the supervisor is in its run loop, the
\* signal not fired.
C27_Witness ==
    /\ spc = "loop"
    /\ cancelFired = 0
    /\ \E w \in Writers : wpc[w] \in {"issue_wait", "verify_wait"}
    /\ \E r \in Readers :
          /\ rres[r].kind = "ReadFailed"
          /\ ReaderBuffered(r)

\* C28 (verification retries never re-apply the mutation).  Once the
\* mutation of an operation was answered 2xx, no step sends a mutation of
\* that operation again, whatever happens to its verification queries; the
\* writer verifies an operation only after such an answer; every retry of
\* the verification leaves the mutation count alone; and a verification that
\* reads a state other than the expected one ends the writer with
\* InvalidState for that operation.
C28_NoResendAfterAck ==
    /\ [](\A w \in Writers : \A k \in 1..cfg.nOps :
            /\ whist[w][k].verSent > 0 => whist[w][k].ack # "none"
            /\ (wpc[w] = "verify_wait" /\ wop[w] = k) => whist[w][k].ack # "none")
    /\ [][\A w \in Writers :
            /\ \A k \in 1..cfg.nOps :
                  whist[w][k].ack = "2xx"
                  => /\ whist'[w][k].mutSent = whist[w][k].mutSent
                     /\ whist'[w][k].ack = "2xx"
            /\ \A outD, outN \in ReadOutcomes :
                  (wpc[w] = "verify_wait" /\ whist[w][wop[w]].ack = "2xx"
                   /\ VerifyResp(w, outD, outN))
                  => /\ \A k \in 1..cfg.nOps :
                           k <= wop[w] => whist'[w][k].mutSent = whist[w][k].mutSent
                     /\ (/\ IsCleanResp(outD) /\ IsCleanResp(outN)
                         /\ ~StateMatches(wop[w], read_current_state(Behav, outD, outN)))
                        => /\ wres'[w].kind = "InvalidState"
                           /\ wres'[w].update_id = UpdateId(wop[w])]_vars

\* A mutation was sent once and answered 2xx; its verification was retried
\* after a transport error and then read a state that is not the expected
\* one: the writer has ended with InvalidState.
C28_Witness ==
    \E w \in Writers :
        /\ wres[w].kind = "InvalidState"
        /\ whist[w][wop[w]].ack = "2xx"
        /\ whist[w][wop[w]].mutSent = 1
        /\ whist[w][wop[w]].verSent >= 2

====
